---------------------------- MODULE Spec2Model ----------------------------
(***************************************************************************)
(* Model of imgui-rs src/window/child_window.rs: the ChildWindow builder,  *)
(* its commit operation (begin), the convenience wrapper (build) and the   *)
(* ChildWindowToken with its explicit release (end) and its Drop.          *)
(*                                                                         *)
(* The engine (the sys crate) is seen only through the calls made to it:   *)
(* every call is appended to `trace`, and the engine's window stack is     *)
(* kept in `stack`.                                                        *)
(***************************************************************************)
EXTENDS Integers, Sequences, FiniteSets, TLC

VARIABLES
    w,          \* the ChildWindow value the caller holds (the builder)
    prev,       \* the builder before the last setter call
    last,       \* the last setter call: <<name, argument>>
    steps,      \* number of setter calls made so far
    trace,      \* every call the module has issued, oldest first
    stack,      \* the engine's window stack: the tokens whose window is open
    tok,        \* the ChildWindowToken values, by creation index
    frames,     \* the build() invocations whose content closure is running
    unwinding,  \* TRUE while a panic is propagating
    commits,    \* number of times the caller's ChildWindow has been committed
    moved       \* TRUE once the caller's ChildWindow has been moved out of

vars == <<w, prev, last, steps, trace, stack, tok, frames, unwinding, commits, moved>>

(***************************************************************************)
(* Bounds of the model.                                                    *)
(***************************************************************************)
\* Number of tokens (commits) in one behaviour.
MaxTokens == 2
\* Number of chained setter calls in one behaviour.
MaxSetterSteps == 2
\* Width in bits of an address of the modelled target.
AddrBits == 16

\* i32::MAX, the bound of the `as i32` cast of the flag bits.
I32Max == 2147483647

(***************************************************************************)
(* f32 values: a class (finite, infinite, NaN), a sign and a magnitude.    *)
(***************************************************************************)
F32(cls, sign, mag) == [cls |-> cls, sign |-> sign, mag |-> mag]
NAN      == F32("nan", 0, 0)
INFINITY == F32("inf", 0, 0)
Zero     == F32("fin", 0, 0)
NegZero  == F32("fin", 1, 0)
One      == F32("fin", 0, 1)
NegOne   == F32("fin", 1, 1)

\* f32::is_finite
is_finite(x) == x.cls = "fin"

\* f32 `!=` (IEEE 754): NaN differs from everything, -0.0 equals 0.0.
F32Ne(a, b) ==
    \/ a.cls = "nan"
    \/ b.cls = "nan"
    \/ /\ a # b
       /\ ~(a.cls = "fin" /\ b.cls = "fin" /\ a.mag = 0 /\ b.mag = 0)

(***************************************************************************)
(* WindowFlags: a bit set, one bit per named flag.                         *)
(***************************************************************************)
BitIndex ==
    [ NO_TITLE_BAR                |-> 0,
      NO_SCROLLBAR                |-> 3,
      NO_SCROLL_WITH_MOUSE        |-> 4,
      ALWAYS_AUTO_RESIZE          |-> 6,
      NO_BACKGROUND               |-> 7,
      NO_MOUSE_INPUTS             |-> 9,
      MENU_BAR                    |-> 10,
      HORIZONTAL_SCROLLBAR        |-> 11,
      NO_FOCUS_ON_APPEARING       |-> 12,
      NO_BRING_TO_FRONT_ON_FOCUS  |-> 13,
      ALWAYS_VERTICAL_SCROLLBAR   |-> 14,
      ALWAYS_HORIZONTAL_SCROLLBAR |-> 15,
      ALWAYS_USE_WINDOW_PADDING   |-> 16,
      NO_NAV_INPUTS               |-> 18,
      NO_NAV_FOCUS                |-> 19 ]

AllFlags == DOMAIN BitIndex

NO_SCROLLBAR                == {"NO_SCROLLBAR"}
NO_SCROLL_WITH_MOUSE        == {"NO_SCROLL_WITH_MOUSE"}
ALWAYS_AUTO_RESIZE          == {"ALWAYS_AUTO_RESIZE"}
NO_BACKGROUND               == {"NO_BACKGROUND"}
NO_MOUSE_INPUTS             == {"NO_MOUSE_INPUTS"}
MENU_BAR                    == {"MENU_BAR"}
HORIZONTAL_SCROLLBAR        == {"HORIZONTAL_SCROLLBAR"}
NO_FOCUS_ON_APPEARING       == {"NO_FOCUS_ON_APPEARING"}
NO_BRING_TO_FRONT_ON_FOCUS  == {"NO_BRING_TO_FRONT_ON_FOCUS"}
ALWAYS_VERTICAL_SCROLLBAR   == {"ALWAYS_VERTICAL_SCROLLBAR"}
ALWAYS_HORIZONTAL_SCROLLBAR == {"ALWAYS_HORIZONTAL_SCROLLBAR"}
ALWAYS_USE_WINDOW_PADDING   == {"ALWAYS_USE_WINDOW_PADDING"}
NO_NAV_INPUTS               == {"NO_NAV_INPUTS"}
NO_NAV_FOCUS                == {"NO_NAV_FOCUS"}
\* The two composite constants: fixed unions of existing bits.
NO_NAV                      == NO_NAV_INPUTS \cup NO_NAV_FOCUS
NO_INPUTS                   == NO_MOUSE_INPUTS \cup NO_NAV_INPUTS \cup NO_NAV_FOCUS

\* WindowFlags::empty()
empty == {}

\* WindowFlags::set(other, value): insert the bits of `other` or remove them.
set(fl, other, value) == IF value THEN fl \cup other ELSE fl \ other

RECURSIVE Pow2(_)
Pow2(n) == IF n = 0 THEN 1 ELSE 2 * Pow2(n - 1)

RECURSIVE SumBits(_)
SumBits(fl) ==
    IF fl = {} THEN 0
    ELSE LET f == CHOOSE x \in fl : TRUE
         IN  Pow2(BitIndex[f]) + SumBits(fl \ {f})

\* WindowFlags::bits(): the u32 holding the set's bits.
bits(fl) == SumBits(fl)

\* `u as i32`: the same 32 bits read as a signed integer.
AsI32(u) == IF u > I32Max THEN ((u - I32Max) - I32Max) - 2 ELSE u

(***************************************************************************)
(* Id: an integer, a pointer or a string slice (address and byte length).  *)
(***************************************************************************)
IdInt(i)      == [tag |-> "Int", val |-> i, len |-> 0]
IdPtr(p)      == [tag |-> "Ptr", val |-> p, len |-> 0]
IdStr(p, n)   == [tag |-> "Str", val |-> p, len |-> n]

\* `i as *const c_void`: the integer sign-extended to the address width.
IntAsPtr(i) == i % Pow2(AddrBits)

(***************************************************************************)
(* ChildWindow: the builder.                                               *)
(***************************************************************************)
\* Fault: ChildWindow without Copy, so that begin moves the caller's value.
ChildWindowIsMoveOnly == FALSE

\* #[derive(Copy, Clone)]: passing a ChildWindow by value leaves the caller's
\* value usable.
ChildWindowIsCopy == TRUE

\* ChildWindow::new
new(id) ==
    [ id           |-> id,
      flags        |-> empty,
      size         |-> <<Zero, Zero>>,
      content_size |-> <<Zero, Zero>>,
      focused      |-> FALSE,
      bg_alpha     |-> NAN,
      border       |-> FALSE ]

flags(self, fl)             == [self EXCEPT !.flags = fl]
size(self, sz)              == [self EXCEPT !.size = sz]
content_size(self, sz)      == [self EXCEPT !.content_size = sz]
focused(self, value)        == [self EXCEPT !.focused = value]
bg_alpha(self, value)       == [self EXCEPT !.bg_alpha = value]
border(self, value)         == [self EXCEPT !.border = value]
scroll_bar(self, value) ==
    [self EXCEPT !.flags = set(@, NO_SCROLLBAR, ~value)]
scrollable(self, value) ==
    [self EXCEPT !.flags = set(@, NO_SCROLL_WITH_MOUSE, ~value)]
always_auto_resize(self, value) ==
    [self EXCEPT !.flags = set(@, ALWAYS_AUTO_RESIZE, value)]
\* Fault: draw_background with the polarity of its bit inverted.
draw_background_inverted(self, value) ==
    [self EXCEPT !.flags = set(@, NO_BACKGROUND, value)]
draw_background(self, value) ==
    [self EXCEPT !.flags = set(@, NO_BACKGROUND, ~value)]
mouse_inputs(self, value) ==
    [self EXCEPT !.flags = set(@, NO_MOUSE_INPUTS, ~value)]
menu_bar(self, value) ==
    [self EXCEPT !.flags = set(@, MENU_BAR, value)]
horizontal_scrollbar(self, value) ==
    [self EXCEPT !.flags = set(@, HORIZONTAL_SCROLLBAR, value)]
focus_on_appearing(self, value) ==
    [self EXCEPT !.flags = set(@, NO_FOCUS_ON_APPEARING, ~value)]
bring_to_front_on_focus(self, value) ==
    [self EXCEPT !.flags = set(@, NO_BRING_TO_FRONT_ON_FOCUS, ~value)]
always_vertical_scrollbar(self, value) ==
    [self EXCEPT !.flags = set(@, ALWAYS_VERTICAL_SCROLLBAR, value)]
always_horizontal_scrollbar(self, value) ==
    [self EXCEPT !.flags = set(@, ALWAYS_HORIZONTAL_SCROLLBAR, value)]
always_use_window_padding(self, value) ==
    [self EXCEPT !.flags = set(@, ALWAYS_USE_WINDOW_PADDING, value)]
nav_inputs(self, value) ==
    [self EXCEPT !.flags = set(@, NO_NAV_INPUTS, ~value)]
nav_focus(self, value) ==
    [self EXCEPT !.flags = set(@, NO_NAV_FOCUS, ~value)]
\* Fault: no_nav assigning NO_NAV instead of or-ing it in.
no_nav_assign(self) ==
    [self EXCEPT !.flags = NO_NAV]
no_nav(self) ==
    [self EXCEPT !.flags = @ \cup NO_NAV]
no_inputs(self) ==
    [self EXCEPT !.flags = @ \cup NO_INPUTS]


(***************************************************************************)
(* The engine, as this module sees it.  An engine state `e` is the record  *)
(* [trace, stack]; each call appends one entry to the trace:               *)
(*   ev   the function called,                                             *)
(*   by   the token on whose behalf the call is made,                      *)
(*   args the arguments, ret the returned value (<<>> for none),           *)
(*   win  the window pushed or popped by the call (0 for none).            *)
(***************************************************************************)
Call(e, ev, by, args, ret, win) ==
    [e EXCEPT !.trace =
        Append(@, [ev |-> ev, by |-> by, args |-> args, ret |-> ret, win |-> win])]

\* `[f32; 2]` into ImVec2
into(a) == [x |-> a[1], y |-> a[2]]

igSetNextWindowContentSize(e, by, sz) ==
    Call(e, "igSetNextWindowContentSize", by, <<sz>>, <<>>, 0)
igSetNextWindowFocus(e, by) ==
    Call(e, "igSetNextWindowFocus", by, <<>>, <<>>, 0)
igSetNextWindowBgAlpha(e, by, alpha) ==
    Call(e, "igSetNextWindowBgAlpha", by, <<alpha>>, <<>>, 0)

\* The ID the engine derives from a pointer value / from a byte range.
HashPtr(p)      == [kind |-> "ptr", a |-> p, b |-> 0]
HashRange(s, t) == [kind |-> "range", a |-> s, b |-> t]

igGetIDPtr(e, by, p) ==
    [e   |-> Call(e, "igGetIDPtr", by, <<p>>, <<HashPtr(p)>>, 0),
     ret |-> HashPtr(p)]
igGetIDRange(e, by, start, end) ==
    [e   |-> Call(e, "igGetIDRange", by, <<start, end>>, <<HashRange(start, end)>>, 0),
     ret |-> HashRange(start, end)]

\* begin_child pushes the window and answers whether its content is visible.
igBeginChildID(e, by, id, sz, brd, fl, visible) ==
    [e   |-> [Call(e, "igBeginChildID", by, <<id, sz, brd, fl>>, <<visible>>, by)
                EXCEPT !.stack = Append(@, by)],
     ret |-> visible]

\* end_child pops the window on top of the stack, whoever pushed it.
igEndChild(e, by) ==
    IF e.stack = <<>>
    THEN Call(e, "igEndChild", by, <<>>, <<>>, 0)
    ELSE [Call(e, "igEndChild", by, <<>>, <<>>, e.stack[Len(e.stack)])
            EXCEPT !.stack = SubSeq(@, 1, Len(@) - 1)]

(***************************************************************************)
(* ChildWindow::begin, in its three parts.                                 *)
(***************************************************************************)
\* Fault: the pre-configuration calls issued in another order.
begin_configure_reordered(e, by, self) ==
    LET e1 == IF is_finite(self.bg_alpha)
              THEN igSetNextWindowBgAlpha(e, by, self.bg_alpha)
              ELSE e
        e2 == IF self.focused THEN igSetNextWindowFocus(e1, by) ELSE e1
    IN  IF F32Ne(self.content_size[1], Zero) \/ F32Ne(self.content_size[2], Zero)
        THEN igSetNextWindowContentSize(e2, by, into(self.content_size))
        ELSE e2

\* Fault: the background alpha passed on without the is_finite test.
begin_configure_any_alpha(e, by, self) ==
    LET e1 == IF F32Ne(self.content_size[1], Zero) \/ F32Ne(self.content_size[2], Zero)
              THEN igSetNextWindowContentSize(e, by, into(self.content_size))
              ELSE e
        e2 == IF self.focused THEN igSetNextWindowFocus(e1, by) ELSE e1
    IN  igSetNextWindowBgAlpha(e2, by, self.bg_alpha)

\* The pre-configuration calls, each conditional.
begin_configure(e, by, self) ==
    LET e1 == IF F32Ne(self.content_size[1], Zero) \/ F32Ne(self.content_size[2], Zero)
              THEN igSetNextWindowContentSize(e, by, into(self.content_size))
              ELSE e
        e2 == IF self.focused THEN igSetNextWindowFocus(e1, by) ELSE e1
    IN  IF is_finite(self.bg_alpha)
        THEN igSetNextWindowBgAlpha(e2, by, self.bg_alpha)
        ELSE e2

\* Fault: the byte range of a string ending one byte late.
begin_resolve_id_past_end(e, by, id) ==
    CASE id.tag = "Int" -> igGetIDPtr(e, by, IntAsPtr(id.val))
      [] id.tag = "Ptr" -> igGetIDPtr(e, by, id.val)
      [] id.tag = "Str" ->
            LET start == id.val
                end   == start + id.len + 1
            IN  igGetIDRange(e, by, start, end)

\* The match on self.id.
begin_resolve_id(e, by, id) ==
    CASE id.tag = "Int" -> igGetIDPtr(e, by, IntAsPtr(id.val))
      [] id.tag = "Ptr" -> igGetIDPtr(e, by, id.val)
      [] id.tag = "Str" ->
            LET start == id.val
                end   == start + id.len
            IN  igGetIDRange(e, by, start, end)

\* ChildWindow::begin: the engine state after it and the token it returns.
begin(e, by, self, visible) ==
    LET c  == begin_configure(e, by, self)
        h  == begin_resolve_id(c, by, self.id)
        b  == igBeginChildID(h.e, by, h.ret, into(self.size), self.border,
                             AsI32(bits(self.flags)), visible)
    IN  [e     |-> b.e,
         token |-> [should_render |-> b.ret, should_end |-> TRUE]]

(***************************************************************************)
(* ChildWindowToken.                                                       *)
(***************************************************************************)
\* Fault: a Drop that never releases.
drop_without_end_child(e, by, self) == e

\* Fault: a Drop that ignores the guard.
drop_unguarded(e, by, self) == igEndChild(e, by)

\* Drop for ChildWindowToken
drop(e, by, self) ==
    IF self.should_end THEN igEndChild(e, by) ELSE e

\* Fault: end() leaving the guard set.
end_disarm_skipped(self) == self

\* ChildWindowToken::end, its first statement: the guard is cleared.
end_disarm(self) == [self EXCEPT !.should_end = FALSE]

\* ChildWindowToken::end: the body, then the drop of `self` at its end.
end(e, by, self) ==
    drop(igEndChild(e, by), by, end_disarm(self))

\* Fault: build() calling the content closure whatever begin_child returned.
build_calls_f_always(window) == TRUE

\* ChildWindow::build: whether the content closure is called.
build_calls_f(window) == window.should_render


(***************************************************************************)
(* Inputs.                                                                 *)
(***************************************************************************)
Ids == {IdInt(7), IdInt(-1), IdPtr(4096), IdStr(8192, 3), IdStr(8200, 0)}

F32Args  == {NAN, INFINITY, Zero, NegZero, One, NegOne}
Vec2Args == {<<Zero, Zero>>, <<One, Zero>>, <<Zero, NegOne>>, <<NAN, INFINITY>>}
FlagArgs == {empty, NO_NAV, AllFlags, {"NO_TITLE_BAR", "MENU_BAR"}}

\* A builder with every field away from its default.
Configured ==
    [ id           |-> IdStr(8192, 3),
      flags        |-> NO_INPUTS \cup MENU_BAR,
      size         |-> <<One, NegOne>>,
      content_size |-> <<One, Zero>>,
      focused      |-> TRUE,
      bg_alpha     |-> One,
      border       |-> TRUE ]

\* The builders committed in the lifecycle specification: every identifier
\* on the default builder, and every combination of the three optional
\* pre-configuration fields (set, unset, and unset in an unusual way).
DescInputs ==
    {new(id) : id \in Ids}
    \cup { [Configured EXCEPT !.content_size = c, !.focused = f, !.bg_alpha = a] :
             c \in {<<Zero, Zero>>, <<One, Zero>>},
             f \in BOOLEAN,
             a \in {NAN, One} }
    \cup { [Configured EXCEPT !.content_size = c] :
             c \in {<<NegZero, Zero>>, <<Zero, NAN>>, <<Zero, NegOne>>} }
    \cup { [Configured EXCEPT !.bg_alpha = a] : a \in {INFINITY, Zero, NegOne} }

\* The builders the setter specification starts from.
InitFlagSets ==
    {empty, AllFlags, AllFlags \ NO_INPUTS} \cup {{f} : f \in AllFlags}
SetterInputs ==
    {[b EXCEPT !.flags = fl] : b \in {new(IdInt(7)), Configured}, fl \in InitFlagSets}

(***************************************************************************)
(* State.                                                                  *)
(***************************************************************************)
Tokens == 1..MaxTokens

\* A token that does not exist yet.
Unborn ==
    [state |-> "unborn", should_render |-> FALSE, should_end |-> FALSE,
     owner |-> "none", how |-> "none", in_order |-> TRUE]

\* A token as begin returns it, held by `owner` ("caller" or "build").
Armed(token, owner) ==
    [state |-> "armed", should_render |-> token.should_render,
     should_end |-> token.should_end, owner |-> owner, how |-> "none",
     in_order |-> TRUE]

\* t is the most recently created token among those still armed.
Youngest(t) == \A u \in Tokens : tok[u].state = "armed" => u <= t

\* The token after its lifetime ended by `how` ("end" or "drop").
Released(t, how) ==
    [tok[t] EXCEPT !.state = "released", !.how = how,
                   !.should_end = IF how = "end" THEN end_disarm(tok[t]).should_end ELSE @,
                   !.in_order = Youngest(t)]

E == [trace |-> trace, stack |-> stack]
SetE(e) == trace' = e.trace /\ stack' = e.stack

\* A control-flow event of build, recorded in the trace between the calls.
Mark(e, ev, by) == Call(e, ev, by, <<>>, <<>>, 0)

InitRest ==
    /\ prev = w
    /\ last = <<"new", FALSE>>
    /\ steps = 0
    /\ trace = <<>>
    /\ stack = <<>>
    /\ tok = [t \in Tokens |-> Unborn]
    /\ frames = <<>>
    /\ unwinding = FALSE
    /\ commits = 0
    /\ moved = FALSE

Init == w \in DescInputs /\ InitRest

(***************************************************************************)
(* Lifecycle actions.                                                      *)
(***************************************************************************)
\* The caller commits its builder: `let t = w.begin(ui)`.
Begin(visible) ==
    /\ ~unwinding
    /\ ~moved
    /\ commits < MaxTokens
    /\ LET t == commits + 1
           r == begin(E, t, w, visible)
       IN  /\ SetE(r.e)
           /\ tok' = [tok EXCEPT ![t] = Armed(r.token, "caller")]
    /\ commits' = commits + 1
    /\ moved' = ~ChildWindowIsCopy
    /\ UNCHANGED <<w, prev, last, steps, frames, unwinding>>

\* The caller releases a token it holds: `t.end()`.
End(t) ==
    /\ ~unwinding
    /\ tok[t].state = "armed"
    /\ tok[t].owner = "caller"
    /\ SetE(end(E, t, tok[t]))
    /\ tok' = [tok EXCEPT ![t] = Released(t, "end")]
    /\ UNCHANGED <<w, prev, last, steps, frames, unwinding, commits, moved>>

\* A token the caller holds goes out of scope (also while unwinding).
Drop(t) ==
    /\ tok[t].state = "armed"
    /\ tok[t].owner = "caller"
    /\ SetE(drop(E, t, tok[t]))
    /\ tok' = [tok EXCEPT ![t] = Released(t, "drop")]
    /\ UNCHANGED <<w, prev, last, steps, frames, unwinding, commits, moved>>

\* build() up to the call of the content closure; when the closure is not
\* called, build() to its end.
BuildEnter(visible) ==
    /\ ~unwinding
    /\ ~moved
    /\ commits < MaxTokens
    /\ LET t      == commits + 1
           r      == begin(E, t, w, visible)
           window == r.token
       IN  IF build_calls_f(window)
           THEN /\ SetE(Mark(r.e, "f", t))
                /\ tok' = [tok EXCEPT ![t] = Armed(window, "build")]
                /\ frames' = Append(frames, t)
           ELSE /\ SetE(Mark(end(r.e, t, window), "build_ret", t))
                /\ tok' = [tok EXCEPT ![t] =
                       [Armed(window, "build") EXCEPT
                           !.state = "released", !.how = "end",
                           !.should_end = end_disarm(window).should_end]]
                /\ frames' = frames
    /\ commits' = commits + 1
    /\ moved' = ~ChildWindowIsCopy
    /\ UNCHANGED <<w, prev, last, steps, unwinding>>

\* The content closure of the innermost build() returns: window.end().
ContentReturn ==
    /\ ~unwinding
    /\ frames # <<>>
    /\ LET t == frames[Len(frames)]
       IN  /\ SetE(Mark(end(Mark(E, "f_ret", t), t, tok[t]), "build_ret", t))
           /\ tok' = [tok EXCEPT ![t] = Released(t, "end")]
    /\ frames' = SubSeq(frames, 1, Len(frames) - 1)
    /\ UNCHANGED <<w, prev, last, steps, unwinding, commits, moved>>

\* A panic leaves the content closure of the innermost build(): `window`
\* is dropped as the unwind leaves build().
UnwindBuild ==
    /\ frames # <<>>
    /\ LET t == frames[Len(frames)]
       IN  /\ SetE(Mark(drop(Mark(E, "f_panic", t), t, tok[t]), "build_unwind", t))
           /\ tok' = [tok EXCEPT ![t] = Released(t, "drop")]
    /\ frames' = SubSeq(frames, 1, Len(frames) - 1)
    /\ unwinding' = TRUE
    /\ UNCHANGED <<w, prev, last, steps, commits, moved>>

\* The content closure panics.
ContentPanic == ~unwinding /\ UnwindBuild

\* The panic propagates through the enclosing build().
Unwind == unwinding /\ UnwindBuild

Next ==
    \/ \E visible \in BOOLEAN : Begin(visible)
    \/ \E t \in Tokens : End(t)
    \/ \E t \in Tokens : Drop(t)
    \/ \E visible \in BOOLEAN : BuildEnter(visible)
    \/ ContentReturn
    \/ ContentPanic
    \/ Unwind

Spec == Init /\ [][Next]_vars


(***************************************************************************)
(* Setter actions: the caller replaces its builder by the setter's result. *)
(***************************************************************************)
Setter(name, arg, result) ==
    /\ steps < MaxSetterSteps
    /\ prev' = w
    /\ w' = result
    /\ last' = <<name, arg>>
    /\ steps' = steps + 1
    /\ UNCHANGED <<trace, stack, tok, frames, unwinding, commits, moved>>

SetFlags       == \E fl \in FlagArgs : Setter("flags", fl, flags(w, fl))
SetSize        == \E sz \in Vec2Args : Setter("size", sz, size(w, sz))
SetContentSize == \E sz \in Vec2Args : Setter("content_size", sz, content_size(w, sz))
SetFocused     == \E v \in BOOLEAN : Setter("focused", v, focused(w, v))
SetBgAlpha     == \E a \in F32Args : Setter("bg_alpha", a, bg_alpha(w, a))
SetBorder      == \E v \in BOOLEAN : Setter("border", v, border(w, v))
SetScrollBar == \E v \in BOOLEAN : Setter("scroll_bar", v, scroll_bar(w, v))
SetScrollable == \E v \in BOOLEAN : Setter("scrollable", v, scrollable(w, v))
SetAlwaysAutoResize == \E v \in BOOLEAN : Setter("always_auto_resize", v, always_auto_resize(w, v))
SetDrawBackground == \E v \in BOOLEAN : Setter("draw_background", v, draw_background(w, v))
SetMouseInputs == \E v \in BOOLEAN : Setter("mouse_inputs", v, mouse_inputs(w, v))
SetMenuBar == \E v \in BOOLEAN : Setter("menu_bar", v, menu_bar(w, v))
SetHorizontalScrollbar == \E v \in BOOLEAN : Setter("horizontal_scrollbar", v, horizontal_scrollbar(w, v))
SetFocusOnAppearing == \E v \in BOOLEAN : Setter("focus_on_appearing", v, focus_on_appearing(w, v))
SetBringToFrontOnFocus == \E v \in BOOLEAN : Setter("bring_to_front_on_focus", v, bring_to_front_on_focus(w, v))
SetAlwaysVerticalScrollbar == \E v \in BOOLEAN : Setter("always_vertical_scrollbar", v, always_vertical_scrollbar(w, v))
SetAlwaysHorizontalScrollbar == \E v \in BOOLEAN : Setter("always_horizontal_scrollbar", v, always_horizontal_scrollbar(w, v))
SetAlwaysUseWindowPadding == \E v \in BOOLEAN : Setter("always_use_window_padding", v, always_use_window_padding(w, v))
SetNavInputs == \E v \in BOOLEAN : Setter("nav_inputs", v, nav_inputs(w, v))
SetNavFocus == \E v \in BOOLEAN : Setter("nav_focus", v, nav_focus(w, v))
SetNoNav == Setter("no_nav", FALSE, no_nav(w))
SetNoInputs == Setter("no_inputs", FALSE, no_inputs(w))

NextSetters ==
    \/ SetFlags
    \/ SetSize
    \/ SetContentSize
    \/ SetFocused
    \/ SetBgAlpha
    \/ SetBorder
    \/ SetScrollBar
    \/ SetScrollable
    \/ SetAlwaysAutoResize
    \/ SetDrawBackground
    \/ SetMouseInputs
    \/ SetMenuBar
    \/ SetHorizontalScrollbar
    \/ SetFocusOnAppearing
    \/ SetBringToFrontOnFocus
    \/ SetAlwaysVerticalScrollbar
    \/ SetAlwaysHorizontalScrollbar
    \/ SetAlwaysUseWindowPadding
    \/ SetNavInputs
    \/ SetNavFocus
    \/ SetNoNav
    \/ SetNoInputs

InitSetters == w \in SetterInputs /\ InitRest

SpecSetters == InitSetters /\ [][NextSetters]_vars


(***************************************************************************)
(* Reading the trace.                                                      *)
(***************************************************************************)
\* The positions of the trace holding an event of `evs` made for token t.
Idx(evs, t) == {i \in DOMAIN trace : trace[i].by = t /\ trace[i].ev \in evs}
N(evs, t)   == Cardinality(Idx(evs, t))
Before(A, B) == \A i \in A, j \in B : i < j

Born(t)     == tok[t].state # "unborn"
IsReleased(t) == tok[t].state = "released"

ConfigCalls == {"igSetNextWindowContentSize", "igSetNextWindowFocus",
                "igSetNextWindowBgAlpha"}
HashCalls   == {"igGetIDPtr", "igGetIDRange"}
BeginCalls  == ConfigCalls \cup HashCalls \cup {"igBeginChildID"}
EngineCalls == BeginCalls \cup {"igEndChild"}
BuildEvents == {"f", "f_ret", "f_panic", "build_ret", "build_unwind"}

\* The engine calls made for token t other than end_child, oldest first.
CallsOfBegin(t) ==
    SelectSeq(trace, LAMBDA x : x.by = t /\ x.ev # "igEndChild" /\ x.ev \notin BuildEvents)

\* The one entry of the trace with event ev made for token t.
The(ev, t) == trace[CHOOSE i \in Idx({ev}, t) : TRUE]

(***************************************************************************)
(* C1.  For every token produced by begin, end_child is issued exactly     *)
(* once over the token's lifetime, whether the token is only dropped or    *)
(* end() is called and the token then dropped: a token whose lifetime is   *)
(* over has had exactly one end_child, a token released by end() has its   *)
(* should_end cleared, and a token still armed has had none.               *)
(***************************************************************************)
C1_ExactlyOneEndChild ==
    \A t \in Tokens :
        /\ IsReleased(t) => N({"igEndChild"}, t) = 1
        /\ IsReleased(t) /\ tok[t].how = "end" => ~tok[t].should_end
        /\ ~IsReleased(t) => N({"igEndChild"}, t) = 0

\* Both paths have been taken by tokens the caller held.
C1_Witness ==
    \E t, u \in Tokens :
        /\ tok[t].owner = "caller" /\ IsReleased(t) /\ tok[t].how = "end"
        /\ tok[u].owner = "caller" /\ IsReleased(u) /\ tok[u].how = "drop"

(***************************************************************************)
(* C2.  build() keeps begin_child/end_child balanced under every exit of   *)
(* the content closure: for a build() that has been left, by return or by  *)
(* unwinding, exactly one end_child was issued for its one begin_child,    *)
(* after the closure stopped and before build() was left; while the        *)
(* closure runs no end_child has been issued.                              *)
(***************************************************************************)
C2_BuildBalanced ==
    \A t \in Tokens :
        tok[t].owner = "build" =>
            /\ N({"igBeginChildID"}, t) = 1
            /\ IsReleased(t) =>
                /\ N({"igEndChild"}, t) = 1
                /\ N({"build_ret", "build_unwind"}, t) = 1
                /\ N({"f"}, t) = N({"f_ret", "f_panic"}, t)
                /\ Before(Idx({"igBeginChildID", "f", "f_ret", "f_panic"}, t),
                          Idx({"igEndChild"}, t))
                /\ Before(Idx({"igEndChild"}, t),
                          Idx({"build_ret", "build_unwind"}, t))
            /\ ~IsReleased(t) =>
                /\ N({"igEndChild"}, t) = 0
                /\ N({"f"}, t) = 1
                /\ N({"f_ret", "f_panic", "build_ret", "build_unwind"}, t) = 0

\* One build() left by a panic of its closure and one left by its return.
C2_Witness ==
    \E t, u \in Tokens :
        /\ tok[t].owner = "build" /\ IsReleased(t) /\ N({"f_panic"}, t) = 1
        /\ tok[u].owner = "build" /\ IsReleased(u) /\ N({"f_ret"}, u) = 1

(***************************************************************************)
(* C3.  build() calls the content closure if and only if begin_child       *)
(* returned true, and then once; a build() that has been left released its *)
(* token exactly once, in the true and in the false branch; every token's  *)
(* should_render is the value begin_child returned.                        *)
(***************************************************************************)
C3_ContentIffVisible ==
    \A t \in Tokens :
        Born(t) =>
            /\ N({"igBeginChildID"}, t) = 1
            /\ tok[t].should_render = The("igBeginChildID", t).ret[1]
            /\ tok[t].owner = "build" =>
                /\ N({"f"}, t) = IF The("igBeginChildID", t).ret[1] THEN 1 ELSE 0
                /\ IsReleased(t) => N({"igEndChild"}, t) = 1

\* A build() left in the false branch and one left in the true branch.
C3_Witness ==
    \E t, u \in Tokens :
        /\ tok[t].owner = "build" /\ IsReleased(t) /\ ~tok[t].should_render
        /\ tok[u].owner = "build" /\ IsReleased(u) /\ tok[u].should_render
        /\ N({"f_ret"}, u) = 1

(***************************************************************************)
(* C4.  The claim as stated: tokens are released in exactly the reverse    *)
(* order of their creation (no token is released while a younger one is    *)
(* still armed), and every end_child pops the window pushed by the token   *)
(* being released.                                                         *)
(***************************************************************************)
C4_AlwaysReverseOrder ==
    /\ \A t \in Tokens : IsReleased(t) => tok[t].in_order
    /\ \A i \in DOMAIN trace :
           trace[i].ev = "igEndChild" => trace[i].win = trace[i].by

(***************************************************************************)
(* C4, amended.  The module does not enforce the order of releases.  As    *)
(* long as every release so far was made on the youngest armed token, the  *)
(* engine's stack holds exactly the armed tokens in creation order and     *)
(* every end_child popped the window of the token being released.          *)
(***************************************************************************)
C4_ReverseOrderKeepsStack ==
    (\A t \in Tokens : IsReleased(t) => tok[t].in_order) =>
        /\ \A i \in DOMAIN trace :
               trace[i].ev = "igEndChild" => trace[i].win = trace[i].by
        /\ \A i \in DOMAIN stack : tok[stack[i]].state = "armed"
        /\ \A i, j \in DOMAIN stack : i < j => stack[i] < stack[j]
        /\ Len(stack) = Cardinality({t \in Tokens : tok[t].state = "armed"})

\* A committed, then B, then B released, then A: push, push, pop, pop.
C4_Witness ==
    LET ops == SelectSeq(trace, LAMBDA x : x.ev \in {"igBeginChildID", "igEndChild"})
    IN  /\ Len(ops) = 4
        /\ [i \in 1..4 |-> <<ops[i].ev, ops[i].by, ops[i].win>>] =
              << <<"igBeginChildID", 1, 1>>, <<"igBeginChildID", 2, 2>>,
                 <<"igEndChild", 2, 2>>, <<"igEndChild", 1, 1>> >>
        /\ tok[1].owner = "caller"
        /\ tok[2].owner = "caller"

(***************************************************************************)
(* C5.  The claim as stated: the caller's descriptor is committed at most  *)
(* once.                                                                   *)
(***************************************************************************)
C5_CommittedAtMostOnce == commits <= 1

(***************************************************************************)
(* C5, amended.  begin takes the descriptor by value, but ChildWindow is   *)
(* Copy: a commit never moves the caller's descriptor out, so the same     *)
(* descriptor can be committed again; every commit pushes exactly one      *)
(* window.                                                                 *)
(***************************************************************************)
C5_CommitLeavesDescriptor ==
    /\ ~moved
    /\ Cardinality({i \in DOMAIN trace : trace[i].ev = "igBeginChildID"}) = commits
    /\ \A t \in Tokens : Born(t) <=> t <= commits

\* The same descriptor has been committed twice.
C5_Witness == commits = 2 /\ N({"igBeginChildID"}, 1) = 1 /\ N({"igBeginChildID"}, 2) = 1

(***************************************************************************)
(* C6.  Every begin issues its engine calls in one fixed order: content    *)
(* size, focus, background alpha (each possibly absent), one identifier    *)
(* hashing call, one begin_child, which is the last call and receives the  *)
(* resolved id, the descriptor's size and border and its flag bits.        *)
(***************************************************************************)
Rank(ev) ==
    CASE ev = "igSetNextWindowContentSize" -> 1
      [] ev = "igSetNextWindowFocus"       -> 2
      [] ev = "igSetNextWindowBgAlpha"     -> 3
      [] ev \in HashCalls                  -> 4
      [] ev = "igBeginChildID"             -> 5
      [] OTHER                             -> 0

\* The flags whose bit is set in the integer n >= 0.
FlagsOfBits(n) == {f \in AllFlags : (n \div Pow2(BitIndex[f])) % 2 = 1}

C6_BeginCallOrder ==
    \A t \in Tokens :
        Born(t) =>
            LET cs == CallsOfBegin(t)
                n  == Len(cs)
            IN  /\ n >= 2
                /\ \A i \in 1..n : Rank(cs[i].ev) > 0
                /\ \A i, j \in 1..n : i < j => Rank(cs[i].ev) < Rank(cs[j].ev)
                /\ cs[n].ev = "igBeginChildID"
                /\ cs[n - 1].ev \in HashCalls
                /\ cs[n].args[1] = cs[n - 1].ret[1]
                /\ cs[n].args[2] = [x |-> w.size[1], y |-> w.size[2]]
                /\ cs[n].args[3] = w.border
                /\ cs[n].args[4] >= 0
                /\ FlagsOfBits(cs[n].args[4]) = w.flags

\* A begin that issued all five calls.
C6_Witness == \E t \in Tokens : Born(t) /\ Len(CallsOfBegin(t)) = 5

(***************************************************************************)
(* C7.  The pre-configuration calls fire only when their field is set:     *)
(* background alpha only when bg_alpha is finite, content size only when   *)
(* an axis is non-zero, focus only when focused is true; committing a      *)
(* default-constructed descriptor issues none of the three.                *)
(***************************************************************************)
NonZero(a) == ~(a.cls = "fin" /\ a.mag = 0)

C7_ConfigOnlyWhenSet ==
    \A t \in Tokens :
        Born(t) =>
            /\ N({"igSetNextWindowBgAlpha"}, t) > 0 => w.bg_alpha.cls = "fin"
            /\ N({"igSetNextWindowContentSize"}, t) > 0 =>
                   NonZero(w.content_size[1]) \/ NonZero(w.content_size[2])
            /\ N({"igSetNextWindowFocus"}, t) > 0 => w.focused
            /\ w = new(w.id) => N(ConfigCalls, t) = 0

\* A default-constructed descriptor has been committed.
C7_Witness == w = new(w.id) /\ Born(1) /\ N(HashCalls, 1) = 1

(***************************************************************************)
(* C8.  Identifier resolution: exactly one hashing call per commit; an     *)
(* integer and a pointer identifier go through the pointer-hashing call,   *)
(* the integer as the address-sized value congruent to it; a string goes   *)
(* through the byte-range call with end = start + length.                  *)
(***************************************************************************)
C8_IdResolution ==
    /\ \A i \in DOMAIN trace : trace[i].ev \in EngineCalls \cup BuildEvents
    /\ \A t \in Tokens :
        Born(t) =>
            /\ N(HashCalls, t) = 1
            /\ w.id.tag = "Int" =>
                /\ N({"igGetIDPtr"}, t) = 1
                /\ LET p == The("igGetIDPtr", t).args[1]
                   IN  /\ 0 <= p
                       /\ p < Pow2(AddrBits)
                       /\ (p - w.id.val) % Pow2(AddrBits) = 0
            /\ w.id.tag = "Ptr" =>
                /\ N({"igGetIDPtr"}, t) = 1
                /\ The("igGetIDPtr", t).args = <<w.id.val>>
            /\ w.id.tag = "Str" =>
                /\ N({"igGetIDRange"}, t) = 1
                /\ The("igGetIDRange", t).args = <<w.id.val, w.id.val + w.id.len>>

\* A descriptor with a non-empty string identifier has been committed.
C8_Witness == w.id.tag = "Str" /\ w.id.len > 0 /\ Born(1)

(***************************************************************************)
(* C9.  no_nav() gives the builder that nav_inputs(false) followed by      *)
(* nav_focus(false) gives, and no_inputs() the builder that                *)
(* mouse_inputs(false), nav_inputs(false), nav_focus(false) give: the same *)
(* flags and every other field unchanged.                                  *)
(***************************************************************************)
C9_ShorthandsAreUnions ==
    /\ last[1] = "no_nav" =>
           /\ w = nav_focus(nav_inputs(prev, FALSE), FALSE)
           /\ [w EXCEPT !.flags = prev.flags] = prev
    /\ last[1] = "no_inputs" =>
           /\ w = nav_focus(nav_inputs(mouse_inputs(prev, FALSE), FALSE), FALSE)
           /\ [w EXCEPT !.flags = prev.flags] = prev

\* no_nav() applied to a builder with other flags set and NO_NAV not set.
C9_Witness ==
    /\ last[1] = "no_nav"
    /\ prev.flags \cap NO_NAV = {}
    /\ prev.flags # {}

(***************************************************************************)
(* C10.  Each individual setter changes exactly the field or the flag bit  *)
(* it documents and leaves every other field and flag bit as it was; a     *)
(* flag setter sets its bit exactly when the argument has the documented   *)
(* polarity (false for a NO_* flag, true otherwise); no setter issues an   *)
(* engine call.                                                            *)
(***************************************************************************)
Fields == {"id", "flags", "size", "content_size", "focused", "bg_alpha", "border"}
FieldSetters == {"flags", "size", "content_size", "focused", "bg_alpha", "border"}

\* The bit each flag setter documents, and the argument that sets it.
Toggle ==
    [ scroll_bar                  |-> [flag |-> "NO_SCROLLBAR", when |-> FALSE],
      scrollable                  |-> [flag |-> "NO_SCROLL_WITH_MOUSE", when |-> FALSE],
      always_auto_resize          |-> [flag |-> "ALWAYS_AUTO_RESIZE", when |-> TRUE],
      draw_background             |-> [flag |-> "NO_BACKGROUND", when |-> FALSE],
      mouse_inputs                |-> [flag |-> "NO_MOUSE_INPUTS", when |-> FALSE],
      menu_bar                    |-> [flag |-> "MENU_BAR", when |-> TRUE],
      horizontal_scrollbar        |-> [flag |-> "HORIZONTAL_SCROLLBAR", when |-> TRUE],
      focus_on_appearing          |-> [flag |-> "NO_FOCUS_ON_APPEARING", when |-> FALSE],
      bring_to_front_on_focus     |-> [flag |-> "NO_BRING_TO_FRONT_ON_FOCUS", when |-> FALSE],
      always_vertical_scrollbar   |-> [flag |-> "ALWAYS_VERTICAL_SCROLLBAR", when |-> TRUE],
      always_horizontal_scrollbar |-> [flag |-> "ALWAYS_HORIZONTAL_SCROLLBAR", when |-> TRUE],
      always_use_window_padding   |-> [flag |-> "ALWAYS_USE_WINDOW_PADDING", when |-> TRUE],
      nav_inputs                  |-> [flag |-> "NO_NAV_INPUTS", when |-> FALSE],
      nav_focus                   |-> [flag |-> "NO_NAV_FOCUS", when |-> FALSE] ]

C10_SettersChangeOneThing ==
    /\ trace = <<>>
    /\ stack = <<>>
    /\ last[1] \in FieldSetters =>
           /\ w[last[1]] = last[2]
           /\ \A f \in Fields \ {last[1]} : w[f] = prev[f]
    /\ last[1] \in DOMAIN Toggle =>
           /\ \A f \in Fields \ {"flags"} : w[f] = prev[f]
           /\ w.flags \subseteq AllFlags
           /\ \A g \in AllFlags :
                  g \in w.flags <=>
                      IF g = Toggle[last[1]].flag
                      THEN last[2] = Toggle[last[1]].when
                      ELSE g \in prev.flags

\* draw_background(true) clearing NO_BACKGROUND on a builder that has it and
\* other flags set.
C10_Witness ==
    /\ last[1] = "draw_background"
    /\ last[2] = TRUE
    /\ "NO_BACKGROUND" \in prev.flags
    /\ "MENU_BAR" \in prev.flags
    /\ prev.focused

=============================================================================
